---------------------------- MODULE Spec2Model ----------------------------
(***************************************************************************)
(* mddiff: a media directory diff tool.                                    *)
(*                                                                         *)
(* The model covers the scanner (LinearScanner.Scan), the diff engine      *)
(* (Engine.Diff, makeIdentity, BasicComparator.Compare), the reporters     *)
(* (JSON, table, markdown) and the command line wiring (PreRunE, runDiff,  *)
(* Execute).                                                               *)
(*                                                                         *)
(* A file name is a sequence of one-character strings, a relative path is  *)
(* a sequence of file names (its segments), and a path string that the Go  *)
(* code handles is the sequence of its "/"-separated segments: the two     *)
(* are in one-to-one correspondence because no segment holds a "/".        *)
(***************************************************************************)
EXTENDS Integers, Sequences, FiniteSets, TLC

VARIABLES
    rootKind,    \* what each positional argument names: "dir", "file", "absent"
    fs,          \* the directory tree below each root: relative path -> entry
    pc,          \* position of the run
    format,      \* the --format flag
    verbose,     \* the --verbose flag
    sourceTree,  \* DirectoryTree returned by the scan of the source
    targetTree,  \* DirectoryTree returned by the scan of the target
    comparator,  \* Engine.comparator
    report,      \* DiffReport returned by Engine.Diff
    stdout,      \* what was written to os.Stdout / the writer
    err,         \* the error returned to Execute
    exitCode,    \* the exit code of the process
    steps,       \* the steps of the invocation completed so far
    cmp,         \* one call of BasicComparator.Compare: inputs and result
    iter         \* the orders in which Engine.Diff's three loops ranged
                 \* over the maps

vars == <<rootKind, fs, pc, format, verbose, sourceTree, targetTree,
          comparator, report, stdout, err, exitCode, steps, cmp, iter>>

---------------------------------------------------------------------------
(* Bounds and input domains *)

\* Entries (files and directories) created below the two roots, in total.
MaxEntries == 3

\* Width in bits of the scaled-down signed integer standing for Go's int64.
IntBits == 4

\* Largest --size threshold of a BasicComparator built by a library caller.
MaxThreshold == 1

Sides == {"src", "tgt"}

\* File sizes (and directory sizes, as Info().Size() reports them).
Sizes == {0, 1}

---------------------------------------------------------------------------
(* File names and paths *)

\* A byte that is not valid UTF-8 (file names on Linux are byte strings),
\* and the Unicode replacement rune.
byteFF == "0xFF"
runeFFFD == "U+FFFD"

nameA     == <<"a">>
nameAm    == <<"a", ".", "m">>
nameAn    == <<"a", ".", "n">>
nameDotM  == <<".", "m">>
nameGit   == <<".", "g", "i", "t">>
nameLatin == <<byteFF, ".", "m">>

\* Names a file directly below the root may have.
TopNames == {nameA, nameAm, nameAn, nameGit, nameLatin}

\* Names a directory directly below the root may have.
DirNames == {nameA, nameGit}

\* Names a file inside a directory may have.
ChildNames == {nameDotM, nameAm}

\* The two positional arguments, cleaned.
RootPath(side) ==
    IF side = "src" THEN <<"s", "r", "c">> ELSE <<"t", "g", "t">>

\* V1 Ignore List: .DS_Store, Thumbs.db, .git, .idea, .vscode
ignoreList ==
    { <<".", "D", "S", "_", "S", "t", "o", "r", "e">>,
      <<"T", "h", "u", "m", "b", "s", ".", "d", "b">>,
      <<".", "g", "i", "t">>,
      <<".", "i", "d", "e", "a">>,
      <<".", "v", "s", "c", "o", "d", "e">> }

\* d.Name(): the final segment of a path.
Name(path) == path[Len(path)]

\* The parent of a relative path; <<>> is the root.
Parent(path) == SubSeq(path, 1, Len(path) - 1)

\* filepath.Ext: the suffix beginning at the final dot of the name, empty
\* if there is no dot.
Ext(name) ==
    LET dots == {i \in 1..Len(name) : name[i] = "."}
    IN  IF dots = {} THEN <<>>
        ELSE LET last == CHOOSE i \in dots : \A j \in dots : j <= i
             IN  SubSeq(name, last, Len(name))

\* strings.TrimSuffix
TrimSuffix(s, suffix) ==
    IF /\ Len(suffix) <= Len(s)
       /\ SubSeq(s, Len(s) - Len(suffix) + 1, Len(s)) = suffix
    THEN SubSeq(s, 1, Len(s) - Len(suffix))
    ELSE s

\* filepath.Clean of a relative path given as its segments: empty and "."
\* segments are dropped, ".." removes the segment before it (or stays, when
\* there is none to remove), and an empty result is ".".
RECURSIVE CleanFrom(_, _, _)
CleanFrom(segs, i, out) ==
    IF i > Len(segs) THEN (IF out = <<>> THEN << <<".">> >> ELSE out)
    ELSE LET s == segs[i]
         IN  IF s = <<>> \/ s = <<".">> THEN CleanFrom(segs, i + 1, out)
             ELSE IF s = <<".", ".">>
                  THEN IF out # <<>> /\ out[Len(out)] # <<".", ".">>
                       THEN CleanFrom(segs, i + 1, SubSeq(out, 1, Len(out) - 1))
                       ELSE CleanFrom(segs, i + 1, Append(out, s))
                  ELSE CleanFrom(segs, i + 1, Append(out, s))

Clean(segs) == CleanFrom(segs, 1, <<>>)

\* filepath.Dir of a clean relative path: "." for a single segment.
Dir(relPath) ==
    IF Len(relPath) <= 1 THEN << <<".">> >> ELSE Parent(relPath)

\* filepath.Join(dir, elem): empty elements are ignored, the rest is joined
\* with the separator and cleaned.
Join(dir, elem) == Clean(IF elem = <<>> THEN dir ELSE Append(dir, elem))


---------------------------------------------------------------------------
(* pkg/scanner: LinearScanner *)

\* The entries of a tree directly inside directory dir.
Children(tree, dir) == {p \in DOMAIN tree : Parent(p) = dir}

\* domain.Asset as the walk callback builds it for one entry.
MakeAsset(tree, relPath) ==
    LET ext  == Ext(Name(relPath))
        stem == TrimSuffix(Name(relPath), ext)
    IN  [Path      |-> relPath,
         Stem      |-> stem,
         Extension |-> ext,
         Size      |-> tree[relPath].Size,
         IsDir     |-> tree[relPath].IsDir]

\* The callback of filepath.WalkDir applied to every entry below dir: an
\* entry whose name is on the ignore list is left out, and when it is a
\* directory (SkipDir) nothing below it is visited; every other entry is
\* recorded, and a directory is walked in turn.
\* Variant: an ignored directory is left out with "return nil" instead of
\* SkipDir, so the walk still descends into it.
RECURSIVE WalkNoSkipDir(_, _)
WalkNoSkipDir(tree, dir) ==
    UNION { (IF Name(p) \in ignoreList THEN {} ELSE {p})
            \cup (IF tree[p].IsDir THEN WalkNoSkipDir(tree, p) ELSE {})
          : p \in Children(tree, dir) }

RECURSIVE Walk(_, _)
Walk(tree, dir) ==
    UNION { IF Name(p) \in ignoreList
            THEN {}
            ELSE {p} \cup (IF tree[p].IsDir THEN Walk(tree, p) ELSE {})
          : p \in Children(tree, dir) }

\* LinearScanner.Scan on a walk that meets no error.
Scan(rootPath, tree) ==
    [RootPath |-> rootPath,
     Assets   |-> [p \in Walk(tree, <<>>) |-> MakeAsset(tree, p)]]

---------------------------------------------------------------------------
(* pkg/diff: identity, comparator, engine *)

\* makeIdentity creates a key based on directory and stem, e.g. "subdir/Movie"
makeIdentity(relPath, stem) ==
    LET dir == Dir(relPath)
    IN  IF dir = << <<".">> >> THEN <<stem>> ELSE Join(dir, stem)

\* Two's complement wrap-around of a signed integer of IntBits bits.
MaxInt == 2 ^ (IntBits - 1) - 1
Wrap(x) == ((x + 2 ^ (IntBits - 1)) % (2 ^ IntBits)) - 2 ^ (IntBits - 1)

\* Variant: the size is checked before the extension.
CompareSizeFirst(SizeThreshold, src, tgt) ==
    LET d    == Wrap(src.Size - tgt.Size)
        diff == IF d < 0 THEN Wrap(-d) ELSE d
    IN  IF diff > SizeThreshold
        THEN [modified |-> TRUE, reason |-> <<"Size changed">>]
        ELSE IF src.Extension # tgt.Extension
        THEN [modified |-> TRUE,
              reason   |-> <<"Extension changed: ">> \o src.Extension
                           \o <<" -> ">> \o tgt.Extension]
        ELSE [modified |-> FALSE, reason |-> <<>>]

\* Variant: a difference equal to the threshold already counts (>=).
CompareAtLeast(SizeThreshold, src, tgt) ==
    IF src.Extension # tgt.Extension
    THEN [modified |-> TRUE,
          reason   |-> <<"Extension changed: ">> \o src.Extension
                       \o <<" -> ">> \o tgt.Extension]
    ELSE LET d    == Wrap(src.Size - tgt.Size)
             diff == IF d < 0 THEN Wrap(-d) ELSE d
         IN  IF diff >= SizeThreshold
             THEN [modified |-> TRUE, reason |-> <<"Size changed">>]
             ELSE [modified |-> FALSE, reason |-> <<>>]

\* BasicComparator.Compare: extension first, then the size difference
\* against the threshold.
Compare(SizeThreshold, src, tgt) ==
    IF src.Extension # tgt.Extension
    THEN [modified |-> TRUE,
          reason   |-> <<"Extension changed: ">> \o src.Extension
                       \o <<" -> ">> \o tgt.Extension]
    ELSE LET d    == Wrap(src.Size - tgt.Size)
             diff == IF d < 0 THEN Wrap(-d) ELSE d
         IN  IF diff > SizeThreshold
             THEN [modified |-> TRUE, reason |-> <<"Size changed">>]
             ELSE [modified |-> FALSE, reason |-> <<>>]

\* The comparators an Engine is built with: BasicComparator with a
\* threshold, and two other implementations of domain.AssetComparator.
Comparators ==
    [kind : {"basic"}, SizeThreshold : 0..MaxThreshold]
    \cup [kind : {"always", "dirs"}, SizeThreshold : {0}]

\* e.comparator.Compare(src, tgt)
CompareWith(c, src, tgt) ==
    CASE c.kind = "basic"  -> Compare(c.SizeThreshold, src, tgt)
      [] c.kind = "always" -> [modified |-> TRUE, reason |-> <<>>]
      [] c.kind = "dirs"   ->
            IF src.IsDir # tgt.IsDir
            THEN [modified |-> TRUE, reason |-> <<"Kind changed">>]
            ELSE [modified |-> FALSE, reason |-> <<>>]

\* The orders in which a range loop may iterate the keys of a map.
Orders(S) ==
    {o \in [1..Cardinality(S) -> S] : \A i, j \in DOMAIN o : o[i] = o[j] => i = j}

\* Variant: the first asset indexed under a key is kept.
RECURSIVE IndexFromFirstWins(_, _, _, _)
IndexFromFirstWins(target, order, i, index) ==
    IF i > Len(order) THEN index
    ELSE LET asset == target.Assets[order[i]]
             id    == makeIdentity(order[i], asset.Stem)
         IN  IndexFromFirstWins(target, order, i + 1, index @@ (id :> asset))

\* First loop of Diff: targetIndex[id] = asset, a later asset replacing an
\* earlier one under the same key.
RECURSIVE IndexFrom(_, _, _, _)
IndexFrom(target, order, i, index) ==
    IF i > Len(order) THEN index
    ELSE LET asset == target.Assets[order[i]]
             id    == makeIdentity(order[i], asset.Stem)
         IN  IndexFrom(target, order, i + 1, (id :> asset) @@ index)

targetIndex(target, order) == IndexFrom(target, order, 1, <<>>)

MissingItem(srcAsset) ==
    [Type |-> "MISSING", Path |-> srcAsset.Path, Reason |-> <<>>,
     SrcSize |-> srcAsset.Size, TgtSize |-> 0]

ModifiedItem(srcAsset, tgtAsset, reason) ==
    [Type |-> "MODIFIED", Path |-> srcAsset.Path, Reason |-> reason,
     SrcSize |-> srcAsset.Size, TgtSize |-> tgtAsset.Size]

\* Variant: the EXTRA item does not carry the size of the target asset.
ExtraItemNoSize(tgtAsset) ==
    [Type |-> "EXTRA", Path |-> tgtAsset.Path, Reason |-> <<>>,
     SrcSize |-> 0, TgtSize |-> 0]

ExtraItem(tgtAsset) ==
    [Type |-> "EXTRA", Path |-> tgtAsset.Path, Reason |-> <<>>,
     SrcSize |-> 0, TgtSize |-> tgtAsset.Size]

\* Variant: a target is marked as processed only when the pair is modified.
SourceStepMarkModified(c, index, relPath, srcAsset, acc) ==
    LET id == makeIdentity(relPath, srcAsset.Stem)
    IN  IF id \notin DOMAIN index
        THEN [acc EXCEPT !.Items = Append(@, MissingItem(srcAsset)),
                         !.TotalMissing = @ + 1]
        ELSE LET tgtAsset == index[id]
                 res      == CompareWith(c, srcAsset, tgtAsset)
             IN  IF res.modified
                 THEN [acc EXCEPT
                         !.processedTargets = @ \cup {id},
                         !.Items = Append(@, ModifiedItem(srcAsset, tgtAsset,
                                                          res.reason)),
                         !.TotalModified = @ + 1]
                 ELSE acc

\* Variant: the count of modified pairs is taken from the number of items
\* appended so far.
SourceStepCountByLength(c, index, relPath, srcAsset, acc) ==
    LET id == makeIdentity(relPath, srcAsset.Stem)
    IN  IF id \notin DOMAIN index
        THEN [acc EXCEPT !.Items = Append(@, MissingItem(srcAsset)),
                         !.TotalMissing = @ + 1]
        ELSE LET tgtAsset == index[id]
                 res      == CompareWith(c, srcAsset, tgtAsset)
             IN  IF res.modified
                 THEN [acc EXCEPT
                         !.processedTargets = @ \cup {id},
                         !.Items = Append(@, ModifiedItem(srcAsset, tgtAsset,
                                                          res.reason)),
                         !.TotalModified = Len(acc.Items) + 1]
                 ELSE [acc EXCEPT !.processedTargets = @ \cup {id}]

\* One iteration of the loop over the source assets. acc holds the report
\* under construction and processedTargets.
SourceStep(c, index, relPath, srcAsset, acc) ==
    LET id == makeIdentity(relPath, srcAsset.Stem)
    IN  IF id \notin DOMAIN index
        THEN [acc EXCEPT !.Items = Append(@, MissingItem(srcAsset)),
                         !.TotalMissing = @ + 1]
        ELSE LET tgtAsset == index[id]
                 res      == CompareWith(c, srcAsset, tgtAsset)
             IN  IF res.modified
                 THEN [acc EXCEPT
                         !.processedTargets = @ \cup {id},
                         !.Items = Append(@, ModifiedItem(srcAsset, tgtAsset,
                                                          res.reason)),
                         !.TotalModified = @ + 1]
                 ELSE [acc EXCEPT !.processedTargets = @ \cup {id}]

RECURSIVE SourceLoop(_, _, _, _, _, _)
SourceLoop(c, source, index, order, i, acc) ==
    IF i > Len(order) THEN acc
    ELSE SourceLoop(c, source, index, order, i + 1,
                    SourceStep(c, index, order[i], source.Assets[order[i]], acc))

\* Variant: an EXTRA item is counted in the summary like a MISSING one.
ExtraStepCounted(relPath, tgtAsset, acc) ==
    LET id == makeIdentity(relPath, tgtAsset.Stem)
    IN  IF id \notin acc.processedTargets
        THEN [acc EXCEPT !.Items = Append(@, ExtraItem(tgtAsset)),
                         !.TotalMissing = @ + 1]
        ELSE acc

\* Variant: directories are never reported as EXTRA.
ExtraStepSkipDirs(relPath, tgtAsset, acc) ==
    LET id == makeIdentity(relPath, tgtAsset.Stem)
    IN  IF id \notin acc.processedTargets /\ ~tgtAsset.IsDir
        THEN [acc EXCEPT !.Items = Append(@, ExtraItem(tgtAsset))]
        ELSE acc

\* Variant: an EXTRA item is put in front of the items.
ExtraStepPrepend(relPath, tgtAsset, acc) ==
    LET id == makeIdentity(relPath, tgtAsset.Stem)
    IN  IF id \notin acc.processedTargets
        THEN [acc EXCEPT !.Items = <<ExtraItem(tgtAsset)>> \o @]
        ELSE acc

\* One iteration of the loop over the target assets.
ExtraStep(relPath, tgtAsset, acc) ==
    LET id == makeIdentity(relPath, tgtAsset.Stem)
    IN  IF id \notin acc.processedTargets
        THEN [acc EXCEPT !.Items = Append(@, ExtraItem(tgtAsset))]
        ELSE acc

RECURSIVE ExtraLoop(_, _, _, _)
ExtraLoop(target, order, i, acc) ==
    IF i > Len(order) THEN acc
    ELSE ExtraLoop(target, order, i + 1,
                   ExtraStep(order[i], target.Assets[order[i]], acc))

\* Engine.Diff with comparator c. The three range loops over the maps
\* iterate in idxOrder, srcOrder and tgtOrder.
Diff(c, source, target, idxOrder, srcOrder, tgtOrder) ==
    LET index == targetIndex(target, idxOrder)
        acc0  == [Items |-> <<>>, TotalMissing |-> 0, TotalModified |-> 0,
                  processedTargets |-> {}]
        acc1  == SourceLoop(c, source, index, srcOrder, 1, acc0)
        acc2  == ExtraLoop(target, tgtOrder, 1, acc1)
    IN  [SourceDir |-> source.RootPath,
         TargetDir |-> target.RootPath,
         Items     |-> acc2.Items,
         Summary   |-> [TotalMissing  |-> acc2.TotalMissing,
                        TotalModified |-> acc2.TotalModified]]

---------------------------------------------------------------------------
(* pkg/report: reporters *)

\* encoding/json of a Go string: the JSON string is coerced to valid UTF-8,
\* every invalid byte being replaced by the Unicode replacement rune.
EncodeString(str) ==
    [i \in DOMAIN str |-> IF str[i] = byteFF THEN runeFFFD ELSE str[i]]

\* A relative path is written as one string: each segment is encoded.
EncodePath(path) == [i \in DOMAIN path |-> EncodeString(path[i])]

\* Variant: TgtSize carries the tag json:"-" and is never written.
EncodeItemNoTgtSize(item) ==
    LET keys == {"type", "path"}
                \cup (IF item.Reason # <<>> THEN {"reason"} ELSE {})
                \cup (IF item.SrcSize # 0 THEN {"src_size"} ELSE {})
    IN  [k \in keys |->
            CASE k = "type"     -> item.Type
              [] k = "path"     -> EncodePath(item.Path)
              [] k = "reason"   -> EncodeString(item.Reason)
              [] k = "src_size" -> item.SrcSize]

\* encoding/json of a DiffItem: type and path are always written; reason,
\* src_size and tgt_size carry omitempty and are left out when they hold
\* the zero value of their type.
EncodeItem(item) ==
    LET keys == {"type", "path"}
                \cup (IF item.Reason # <<>> THEN {"reason"} ELSE {})
                \cup (IF item.SrcSize # 0 THEN {"src_size"} ELSE {})
                \cup (IF item.TgtSize # 0 THEN {"tgt_size"} ELSE {})
    IN  [k \in keys |->
            CASE k = "type"     -> item.Type
              [] k = "path"     -> EncodePath(item.Path)
              [] k = "reason"   -> EncodeString(item.Reason)
              [] k = "src_size" -> item.SrcSize
              [] k = "tgt_size" -> item.TgtSize]

\* JSONReporter.Report: the JSON object the encoder writes for a DiffReport.
EncodeReport(r) ==
    [source_dir |-> EncodeString(r.SourceDir),
     target_dir |-> EncodeString(r.TargetDir),
     items      |-> [i \in DOMAIN r.Items |-> EncodeItem(r.Items[i])],
     summary    |-> [total_missing  |-> r.Summary.TotalMissing,
                     total_modified |-> r.Summary.TotalModified]]

\* json.Unmarshal into a DiffItem: a key that is absent leaves the field at
\* its zero value.
DecodeItem(obj) ==
    [Type    |-> IF "type" \in DOMAIN obj THEN obj["type"] ELSE "",
     Path    |-> IF "path" \in DOMAIN obj THEN obj["path"] ELSE <<>>,
     Reason  |-> IF "reason" \in DOMAIN obj THEN obj["reason"] ELSE <<>>,
     SrcSize |-> IF "src_size" \in DOMAIN obj THEN obj["src_size"] ELSE 0,
     TgtSize |-> IF "tgt_size" \in DOMAIN obj THEN obj["tgt_size"] ELSE 0]

\* json.Unmarshal into a DiffReport.
DecodeReport(obj) ==
    [SourceDir |-> obj.source_dir,
     TargetDir |-> obj.target_dir,
     Items     |-> [i \in DOMAIN obj.items |-> DecodeItem(obj.items[i])],
     Summary   |-> [TotalMissing  |-> obj.summary.total_missing,
                    TotalModified |-> obj.summary.total_modified]]

\* TableReporter.Report: one row per item (Status, Path, Details) and the
\* summary line below the table.
TableDetails(item) ==
    IF item.Type = "EXTRA" THEN <<"Size: ", item.TgtSize, " bytes">>
    ELSE IF item.Type = "MISSING" THEN <<"Size: ", item.SrcSize, " bytes">>
    ELSE item.Reason

TableReport(r) ==
    [kind    |-> "table",
     header  |-> <<"Status", "Path", "Details">>,
     rows    |-> [i \in DOMAIN r.Items |->
                    <<r.Items[i].Type, r.Items[i].Path, TableDetails(r.Items[i])>>],
     summary |-> <<"Summary: Missing: ", r.Summary.TotalMissing,
                   ", Modified: ", r.Summary.TotalModified>>]

\* The items of one type, in the order of the report.
RECURSIVE ItemsOfType(_, _)
ItemsOfType(items, type) ==
    IF items = <<>> THEN <<>>
    ELSE (IF Head(items).Type = type THEN <<Head(items)>> ELSE <<>>)
         \o ItemsOfType(Tail(items), type)

\* MarkdownReporter.Report: the header, then the sections Missing, Modified
\* and Extra, a section being written only when it has items.
MarkdownReport(r) ==
    LET missing  == ItemsOfType(r.Items, "MISSING")
        modified == ItemsOfType(r.Items, "MODIFIED")
        extra    == ItemsOfType(r.Items, "EXTRA")
    IN  [kind     |-> "markdown",
         header   |-> <<"# Diff Report", r.SourceDir, r.TargetDir>>,
         sections |->
            (IF missing # <<>>
             THEN << <<"## Missing Files (In Source, Not Target)",
                       [i \in DOMAIN missing |->
                          <<missing[i].Path, missing[i].SrcSize>>]>> >>
             ELSE <<>>)
            \o (IF modified # <<>>
                THEN << <<"## Modified Files",
                          [i \in DOMAIN modified |->
                             <<modified[i].Path, modified[i].Reason>>]>> >>
                ELSE <<>>)
            \o (IF extra # <<>>
                THEN << <<"## Extra Files (In Target, Not Source)",
                          [i \in DOMAIN extra |->
                             <<extra[i].Path, extra[i].TgtSize>>]>> >>
                ELSE <<>>)]

\* NewReporter(format) followed by reporter.Report(report, writer): what is
\* written to the writer.
Render(fmt, r) ==
    CASE fmt = "json"     -> [kind |-> "json", value |-> EncodeReport(r)]
      [] fmt = "table"    -> TableReport(r)
      [] fmt = "markdown" -> MarkdownReport(r)

---------------------------------------------------------------------------
(* The two directories given on the command line *)

\* All entries below both roots.
EntryCount == Cardinality(DOMAIN fs["src"]) + Cardinality(DOMAIN fs["tgt"])

\* The directories a file can be created in: the root, or a directory
\* directly below it.
DirsOf(side) ==
    {<<>>} \cup {p \in DOMAIN fs[side] : fs[side][p].IsDir}

CanCreate(side, dir, name) ==
    /\ pc = "setup"
    /\ rootKind[side] = "dir"
    /\ EntryCount < MaxEntries
    /\ Append(dir, name) \notin DOMAIN fs[side]

Create(side, dir, name, entry) ==
    /\ fs' = [fs EXCEPT ![side] = (Append(dir, name) :> entry) @@ @]
    /\ UNCHANGED <<rootKind, pc, format, verbose, sourceTree, targetTree,
                   comparator, report, stdout, err, exitCode, steps, cmp, iter>>

\* os.MkdirAll of a new directory below a root.
Mkdir ==
    \E side \in Sides, name \in DirNames, size \in Sizes :
        /\ CanCreate(side, <<>>, name)
        /\ Create(side, <<>>, name, [IsDir |-> TRUE, Size |-> size])

\* os.WriteFile of a new file below a root.
WriteFile ==
    \E side \in Sides, size \in Sizes :
      \E dir \in DirsOf(side) :
        \E name \in (IF dir = <<>> THEN TopNames ELSE ChildNames) :
          /\ CanCreate(side, dir, name)
          /\ Create(side, dir, name, [IsDir |-> FALSE, Size |-> size])

---------------------------------------------------------------------------
(* cmd: the command line *)

\* Values of the --format flag a user may give.
Formats == {"json", "table", "markdown", "xml"}

validFormats == {"json", "table", "markdown"}

NoTree == [RootPath |-> <<>>, Assets |-> <<>>]

NoReport ==
    [SourceDir |-> <<>>, TargetDir |-> <<>>, Items |-> <<>>,
     Summary |-> [TotalMissing |-> 0, TotalModified |-> 0]]

NoComparator == [kind |-> "none", SizeThreshold |-> 0]

\* No loop of Engine.Diff has run.
NoIter == [idxOrder |-> <<>>, srcOrder |-> <<>>, tgtOrder |-> <<>>]

\* Variant of Fail: the error is returned and the process ends with 0.
FailExitZero(msg) ==
    /\ pc' = "failed"
    /\ err' = msg
    /\ exitCode' = 0

\* Execute: a non-nil error from rootCmd.Execute ends the process with 1.
Fail(msg) ==
    /\ pc' = "failed"
    /\ err' = msg
    /\ exitCode' = 1

\* Variant: the info.IsDir() check is missing.
validateDirExistsOnly(side) ==
    CASE rootKind[side] = "absent" -> "directory does not exist"
      [] rootKind[side] = "file"   -> ""
      [] rootKind[side] = "dir"    -> ""

\* validateDir: "" when the path is an existing directory.
validateDir(side) ==
    CASE rootKind[side] = "absent" -> "directory does not exist"
      [] rootKind[side] = "file"   -> "path is not a directory"
      [] rootKind[side] = "dir"    -> ""

\* Flag parsing and the first check of PreRunE: the format.
ValidateFormat ==
    /\ pc = "setup"
    /\ \E f \in Formats, v \in BOOLEAN :
         /\ format' = f
         /\ verbose' = v
         /\ IF f \in validFormats
            THEN /\ pc' = "validateSource"
                 /\ steps' = Append(steps, "format")
                 /\ UNCHANGED <<err, exitCode>>
            ELSE /\ Fail("invalid format")
                 /\ UNCHANGED steps
    /\ UNCHANGED <<rootKind, fs, sourceTree, targetTree, comparator, report,
                   stdout, cmp, iter>>

\* PreRunE: validateDir(args[0])
ValidateSource ==
    /\ pc = "validateSource"
    /\ IF validateDir("src") = ""
       THEN /\ pc' = "validateTarget"
            /\ steps' = Append(steps, "source")
            /\ UNCHANGED <<err, exitCode>>
       ELSE /\ Fail("source argument error: " \o validateDir("src"))
            /\ UNCHANGED steps
    /\ UNCHANGED <<rootKind, fs, format, verbose, sourceTree, targetTree,
                   comparator, report, stdout, cmp, iter>>

\* PreRunE: validateDir(args[1])
ValidateTarget ==
    /\ pc = "validateTarget"
    /\ IF validateDir("tgt") = ""
       THEN /\ pc' = "scanSource"
            /\ steps' = Append(steps, "target")
            /\ UNCHANGED <<err, exitCode>>
       ELSE /\ Fail("target argument error: " \o validateDir("tgt"))
            /\ UNCHANGED steps
    /\ UNCHANGED <<rootKind, fs, format, verbose, sourceTree, targetTree,
                   comparator, report, stdout, cmp, iter>>

\* scan.Scan(path) succeeds unless the root cannot be read or the walk meets
\* an error (walkErr). A root that is a file is walked as a single entry,
\* the root itself, which the callback skips.
ScanFails(side, walkErr) == rootKind[side] = "absent" \/ walkErr

ScanOf(side) ==
    Scan(RootPath(side), IF rootKind[side] = "dir" THEN fs[side] ELSE <<>>)

\* What runDiff prints before a step when --verbose is set.
Verbose(line) ==
    IF verbose THEN Append(stdout, [kind |-> "verbose", line |-> line])
    ELSE stdout

\* runDiff: sourceTree, err := scan.Scan(sourcePath)
ScanSource ==
    /\ pc = "scanSource"
    /\ stdout' = Verbose("Scanning Source: src")
    /\ \E walkErr \in BOOLEAN :
         IF ScanFails("src", walkErr)
         THEN /\ Fail("failed to scan source")
              /\ UNCHANGED <<sourceTree, steps>>
         ELSE /\ sourceTree' = ScanOf("src")
              /\ pc' = "scanTarget"
              /\ steps' = Append(steps, "scanSource")
              /\ UNCHANGED <<err, exitCode>>
    /\ UNCHANGED <<rootKind, fs, format, verbose, targetTree, comparator,
                   report, cmp, iter>>

\* runDiff: targetTree, err := scan.Scan(targetPath)
ScanTarget ==
    /\ pc = "scanTarget"
    /\ stdout' = Verbose("Scanning Target: tgt")
    /\ \E walkErr \in BOOLEAN :
         IF ScanFails("tgt", walkErr)
         THEN /\ Fail("failed to scan target")
              /\ UNCHANGED <<targetTree, steps>>
         ELSE /\ targetTree' = ScanOf("tgt")
              /\ pc' = "diff"
              /\ steps' = Append(steps, "scanTarget")
              /\ UNCHANGED <<err, exitCode>>
    /\ UNCHANGED <<rootKind, fs, format, verbose, sourceTree, comparator,
                   report, cmp, iter>>

\* BasicComparator{SizeThreshold: 0}
DefaultThreshold == 0

\* runDiff: the engine is built with the basic comparator and run.
RunDiff ==
    /\ pc = "diff"
    /\ comparator' = [kind |-> "basic", SizeThreshold |-> DefaultThreshold]
    /\ stdout' = Verbose("Calculating Diff...")
    /\ \E idxOrder \in Orders(DOMAIN targetTree.Assets),
          srcOrder \in Orders(DOMAIN sourceTree.Assets),
          tgtOrder \in Orders(DOMAIN targetTree.Assets) :
         /\ report' = Diff(comparator', sourceTree, targetTree,
                           idxOrder, srcOrder, tgtOrder)
         /\ iter' = [idxOrder |-> idxOrder, srcOrder |-> srcOrder,
                     tgtOrder |-> tgtOrder]
    /\ pc' = "report"
    /\ steps' = Append(steps, "diff")
    /\ UNCHANGED <<rootKind, fs, format, verbose, sourceTree, targetTree,
                   err, exitCode, cmp>>

\* Whether Report returns the error of a failed write to the writer:
\* JSONReporter returns encoder.Encode's error, TableReporter and
\* MarkdownReporter drop the errors of their writes and return nil.
ReportReturnsError(fmt, writeErr) == writeErr /\ fmt = "json"

\* runDiff: the reporter of the format writes the report to os.Stdout
\* (writeErr: os.Stdout accepts no write, e.g. it is closed), and the
\* process ends with 0 unless Report returned an error.
RunReport ==
    /\ pc = "report"
    /\ \E writeErr \in BOOLEAN :
         /\ stdout' = IF writeErr THEN stdout
                      ELSE Append(stdout, Render(format, report))
         /\ IF ReportReturnsError(format, writeErr)
            THEN /\ Fail("write error")
                 /\ UNCHANGED steps
            ELSE /\ pc' = "done"
                 /\ exitCode' = 0
                 /\ steps' = Append(steps, "report")
                 /\ UNCHANGED err
    /\ UNCHANGED <<rootKind, fs, format, verbose, sourceTree, targetTree,
                   comparator, report, cmp, iter>>

---------------------------------------------------------------------------
(* The packages called directly, as a library *)

\* scanner.NewLinearScanner().Scan on both directories.
LibScan ==
    /\ pc = "setup"
    /\ \E srcErr, tgtErr \in BOOLEAN :
         IF ScanFails("src", srcErr)
         THEN /\ Fail("failed to scan source")
              /\ UNCHANGED <<sourceTree, targetTree>>
         ELSE IF ScanFails("tgt", tgtErr)
         THEN /\ Fail("failed to scan target")
              /\ sourceTree' = ScanOf("src")
              /\ UNCHANGED targetTree
         ELSE /\ sourceTree' = ScanOf("src")
              /\ targetTree' = ScanOf("tgt")
              /\ pc' = "diff"
              /\ UNCHANGED <<err, exitCode>>
    /\ UNCHANGED <<rootKind, fs, format, verbose, comparator, report, stdout,
                   steps, cmp, iter>>

\* diff.NewEngine(c).Diff(sourceTree, targetTree) for a comparator c.
LibDiff ==
    /\ pc = "diff"
    /\ \E c \in Comparators :
         /\ comparator' = c
         /\ \E idxOrder \in Orders(DOMAIN targetTree.Assets),
               srcOrder \in Orders(DOMAIN sourceTree.Assets),
               tgtOrder \in Orders(DOMAIN targetTree.Assets) :
              /\ report' = Diff(c, sourceTree, targetTree,
                                idxOrder, srcOrder, tgtOrder)
              /\ iter' = [idxOrder |-> idxOrder, srcOrder |-> srcOrder,
                          tgtOrder |-> tgtOrder]
    /\ pc' = "report"
    /\ UNCHANGED <<rootKind, fs, format, verbose, sourceTree, targetTree,
                   stdout, err, exitCode, steps, cmp>>

\* (&report.JSONReporter{}).Report(report, writer)
LibReport ==
    /\ pc = "report"
    /\ stdout' = Append(stdout, Render("json", report))
    /\ pc' = "done"
    /\ UNCHANGED <<rootKind, fs, format, verbose, sourceTree, targetTree,
                   comparator, report, err, exitCode, steps, cmp, iter>>

---------------------------------------------------------------------------
(* One call of BasicComparator.Compare *)

\* Assets as the scanner builds them for a file of the given name and size.
CompareAssets ==
    {MakeAsset((<<n>> :> [IsDir |-> FALSE, Size |-> sz]), <<n>>) :
        n \in {nameAm, nameAn}, sz \in 0..MaxInt}

NoCompare ==
    [SizeThreshold |-> 0,
     src |-> MakeAsset((<<nameAm>> :> [IsDir |-> FALSE, Size |-> 0]), <<nameAm>>),
     tgt |-> MakeAsset((<<nameAm>> :> [IsDir |-> FALSE, Size |-> 0]), <<nameAm>>),
     called |-> FALSE,
     result |-> [modified |-> FALSE, reason |-> <<>>]]

CompareCall ==
    /\ pc = "compare"
    /\ ~cmp.called
    /\ cmp' = [cmp EXCEPT !.called = TRUE,
                          !.result = Compare(cmp.SizeThreshold, cmp.src, cmp.tgt)]
    /\ UNCHANGED <<rootKind, fs, pc, format, verbose, sourceTree, targetTree,
                   comparator, report, stdout, err, exitCode, steps, iter>>

---------------------------------------------------------------------------
(* Specifications *)

Init ==
    /\ rootKind \in [Sides -> {"dir", "file", "absent"}]
    /\ fs = [s \in Sides |-> <<>>]
    /\ pc = "setup"
    /\ format = "table"
    /\ verbose = FALSE
    /\ sourceTree = NoTree
    /\ targetTree = NoTree
    /\ comparator = NoComparator
    /\ report = NoReport
    /\ stdout = <<>>
    /\ err = ""
    /\ exitCode = -1
    /\ steps = <<>>
    /\ cmp = NoCompare
    /\ iter = NoIter

\* One invocation of the command on two directories.
Next ==
    \/ Mkdir
    \/ WriteFile
    \/ ValidateFormat
    \/ ValidateSource
    \/ ValidateTarget
    \/ ScanSource
    \/ ScanTarget
    \/ RunDiff
    \/ RunReport

Spec == Init /\ [][Next]_vars

\* The scanner, the engine and the reporters called by a library user.
NextLib ==
    \/ Mkdir
    \/ WriteFile
    \/ LibScan
    \/ LibDiff
    \/ LibReport

SpecLib == Init /\ [][NextLib]_vars

\* BasicComparator.Compare on any two assets and any threshold.
InitCompare ==
    /\ rootKind = [s \in Sides |-> "dir"]
    /\ fs = [s \in Sides |-> <<>>]
    /\ pc = "compare"
    /\ format = "table"
    /\ verbose = FALSE
    /\ sourceTree = NoTree
    /\ targetTree = NoTree
    /\ comparator = NoComparator
    /\ report = NoReport
    /\ stdout = <<>>
    /\ err = ""
    /\ exitCode = -1
    /\ steps = <<>>
    /\ cmp \in [SizeThreshold : 0..MaxInt, src : CompareAssets,
                tgt : CompareAssets, called : {FALSE},
                result : {[modified |-> FALSE, reason |-> <<>>]}]
    /\ iter = NoIter

NextCompare == CompareCall

SpecCompare == InitCompare /\ [][NextCompare]_vars

---------------------------------------------------------------------------
(* Vocabulary of the properties *)

\* Both inventories exist.
Scanned == pc \in {"diff", "report", "done"}

\* Engine.Diff has returned its report.
Diffed == pc \in {"report", "done"}

SrcAssets == {sourceTree.Assets[p] : p \in DOMAIN sourceTree.Assets}
TgtAssets == {targetTree.Assets[p] : p \in DOMAIN targetTree.Assets}

\* The indices of the items of the report with a given type and path.
ItemsAt(type, path) ==
    {i \in DOMAIN report.Items :
        report.Items[i].Type = type /\ report.Items[i].Path = path}

ItemsOf(type) == {i \in DOMAIN report.Items : report.Items[i].Type = type}

\* The (parent directory, stem) pair of an asset, and its identity key.
DirStem(asset) == <<Dir(asset.Path), asset.Stem>>
KeyOf(asset) == makeIdentity(asset.Path, asset.Stem)

IsPrefix(p, q) == Len(p) <= Len(q) /\ SubSeq(q, 1, Len(p)) = p

\* The assets of an inventory strictly below a directory.
Descendants(tree, dir) ==
    {tree.Assets[q] : q \in {r \in DOMAIN tree.Assets : r # dir /\ IsPrefix(dir, r)}}

---------------------------------------------------------------------------
(* C1 *)

\* C1: a directory with at least one descendant in its own inventory that
\* exists in only one of the two trees is never the path of a MISSING or
\* EXTRA item; each descendant file of a source-only directory is the path
\* of one MISSING item, each descendant file of a target-only directory the
\* path of one EXTRA item.
C1_NonEmptyDirectoryHidden ==
    Diffed =>
      /\ \A d \in SrcAssets :
           (/\ d.IsDir
            /\ Descendants(sourceTree, d.Path) # {}
            /\ d.Path \notin DOMAIN targetTree.Assets)
           => /\ ItemsAt("MISSING", d.Path) = {}
              /\ ItemsAt("EXTRA", d.Path) = {}
              /\ \A f \in Descendants(sourceTree, d.Path) :
                   ~f.IsDir => Cardinality(ItemsAt("MISSING", f.Path)) = 1
      /\ \A d \in TgtAssets :
           (/\ d.IsDir
            /\ Descendants(targetTree, d.Path) # {}
            /\ d.Path \notin DOMAIN sourceTree.Assets)
           => /\ ItemsAt("MISSING", d.Path) = {}
              /\ ItemsAt("EXTRA", d.Path) = {}
              /\ \A f \in Descendants(targetTree, d.Path) :
                   ~f.IsDir => Cardinality(ItemsAt("EXTRA", f.Path)) = 1

---------------------------------------------------------------------------
(* C2 *)

\* C2: a source asset and a target asset whose (parent directory, stem)
\* pairs differ have different identity keys, and are never matched: when
\* no asset of the other inventory has the pair of one of them, the source
\* asset is reported MISSING and the target asset EXTRA, and no MODIFIED
\* item is reported for the source asset.
C2_DistinctPairsNeverMatch ==
    /\ Scanned =>
         \A s \in SrcAssets, t \in TgtAssets :
           DirStem(s) # DirStem(t) => KeyOf(s) # KeyOf(t)
    /\ Diffed =>
         /\ \A s \in SrcAssets :
              (\A t \in TgtAssets : DirStem(s) # DirStem(t))
              => /\ Cardinality(ItemsAt("MISSING", s.Path)) = 1
                 /\ ItemsAt("MODIFIED", s.Path) = {}
         /\ \A t \in TgtAssets :
              (\A s \in SrcAssets : DirStem(s) # DirStem(t))
              => Cardinality(ItemsAt("EXTRA", t.Path)) = 1

---------------------------------------------------------------------------
(* C3 *)

\* A source asset and a target asset with the same parent directory and
\* stem, different extensions, and an identity key no other asset has.
ExtensionPair(s, t) ==
    /\ DirStem(s) = DirStem(t)
    /\ s.Extension # t.Extension
    /\ \A o \in SrcAssets : o # s => KeyOf(o) # KeyOf(s)
    /\ \A o \in TgtAssets : o # t => KeyOf(o) # KeyOf(t)

ExtensionChanged(s, t) ==
    [Type    |-> "MODIFIED",
     Path    |-> s.Path,
     Reason  |-> <<"Extension changed: ">> \o s.Extension
                 \o <<" -> ">> \o t.Extension,
     SrcSize |-> s.Size,
     TgtSize |-> t.Size]

\* C3: with BasicComparator, such a pair yields exactly one MODIFIED item,
\* with the source path, the reason "Extension changed: <src> -> <tgt>"
\* (never "Size changed", whatever the sizes and the threshold) and both
\* sizes, and yields no MISSING item for the source asset and no EXTRA item
\* for the target asset.
C3_ExtensionChange ==
    (Diffed /\ comparator.kind = "basic") =>
      \A s \in SrcAssets, t \in TgtAssets :
        ExtensionPair(s, t) =>
          /\ \E i \in DOMAIN report.Items :
               /\ report.Items[i] = ExtensionChanged(s, t)
               /\ ItemsAt("MODIFIED", s.Path) = {i}
          /\ ItemsAt("MISSING", s.Path) = {}
          /\ ItemsAt("EXTRA", t.Path) = {}

\* A diff with threshold 0 of a pair that differs in extension and in size.
C3_Witness ==
    /\ Diffed
    /\ comparator.kind = "basic"
    /\ comparator.SizeThreshold = 0
    /\ \E s \in SrcAssets, t \in TgtAssets :
         /\ ExtensionPair(s, t)
         /\ s.Size # t.Size
         /\ \E i \in DOMAIN report.Items : report.Items[i] = ExtensionChanged(s, t)

---------------------------------------------------------------------------
(* C4 *)

Abs(x) == IF x < 0 THEN -x ELSE x

\* C4: for equal extensions, Compare reports "not modified" with an empty
\* reason when the sizes differ by at most the threshold, and "modified"
\* with reason "Size changed" when they differ by at least the threshold
\* plus one, whichever side is larger; with the default threshold every
\* non-zero difference is modified.
C4_SizeThreshold ==
    (cmp.called /\ cmp.src.Extension = cmp.tgt.Extension) =>
      LET delta == Abs(cmp.src.Size - cmp.tgt.Size)
      IN  /\ delta <= cmp.SizeThreshold
               => cmp.result = [modified |-> FALSE, reason |-> <<>>]
          /\ delta >= cmp.SizeThreshold + 1
               => cmp.result = [modified |-> TRUE, reason |-> <<"Size changed">>]
          /\ (cmp.SizeThreshold = DefaultThreshold /\ delta # 0)
               => cmp.result.modified

\* A call on sizes that differ by exactly a non-zero threshold.
C4_Witness ==
    /\ cmp.called
    /\ cmp.src.Extension = cmp.tgt.Extension
    /\ cmp.SizeThreshold > 0
    /\ cmp.tgt.Size - cmp.src.Size = cmp.SizeThreshold
    /\ ~cmp.result.modified

---------------------------------------------------------------------------
(* C5 *)

\* C5: with BasicComparator, when both inventories hold an asset with the
\* same directory, stem, extension and size, no item of the report has
\* that asset's path, also when other assets share its identity key.
C5_IdenticalPairSilent ==
    (Diffed /\ comparator.kind = "basic") =>
      \A s \in SrcAssets, t \in TgtAssets :
        (/\ DirStem(s) = DirStem(t)
         /\ s.Extension = t.Extension
         /\ s.Size = t.Size)
        => \A i \in DOMAIN report.Items :
             report.Items[i].Path # s.Path /\ report.Items[i].Path # t.Path

---------------------------------------------------------------------------
(* C6 *)

\* C6: in every report, total_missing is the number of MISSING items and
\* total_modified the number of MODIFIED items; EXTRA items are counted in
\* neither.
C6_SummaryCounts ==
    Diffed =>
      /\ report.Summary.TotalMissing = Cardinality(ItemsOf("MISSING"))
      /\ report.Summary.TotalModified = Cardinality(ItemsOf("MODIFIED"))

\* A report with a MISSING, a MODIFIED item and both counters at 1.
C6_Witness ==
    /\ Diffed
    /\ Cardinality(ItemsOf("MISSING")) = 1
    /\ Cardinality(ItemsOf("MODIFIED")) = 1
    /\ report.Summary.TotalMissing = 1
    /\ report.Summary.TotalModified = 1

---------------------------------------------------------------------------
(* C7 *)

TreeOf(side) == IF side = "src" THEN sourceTree ELSE targetTree

\* The path has a segment (the final one, or a directory above it) whose
\* name is on the ignore list.
HasIgnored(path) == \E i \in DOMAIN path : path[i] \in ignoreList

\* C7: an inventory holds no asset whose name, or the name of one of its
\* ancestor directories below the root, is on the ignore list; every other
\* entry below the root is in the inventory; and no item of a report has
\* such a path.
C7_IgnoreList ==
    /\ Scanned =>
         \A side \in Sides :
           /\ \A p \in DOMAIN TreeOf(side).Assets : ~HasIgnored(p)
           /\ \A p \in DOMAIN fs[side] :
                ~HasIgnored(p) => p \in DOMAIN TreeOf(side).Assets
    /\ Diffed =>
         \A i \in DOMAIN report.Items : ~HasIgnored(report.Items[i].Path)

\* A scan of a tree with a .git directory that holds a file, beside an
\* entry that is kept.
C7_Witness ==
    /\ Scanned
    /\ \E side \in Sides :
         /\ <<nameGit>> \in DOMAIN fs[side]
         /\ fs[side][<<nameGit>>].IsDir
         /\ <<nameGit, nameAm>> \in DOMAIN fs[side]
         /\ DOMAIN TreeOf(side).Assets = {<<nameAm>>}

---------------------------------------------------------------------------
(* C8 *)

\* A directory of one inventory with no descendant in it and no entry of
\* the same path in the other inventory.
EmptyDirOnlyIn(tree, other, d) ==
    /\ d.IsDir
    /\ Descendants(tree, d.Path) = {}
    /\ d.Path \notin DOMAIN other.Assets

\* C8 as stated: an empty directory only in the source is the path of
\* exactly one MISSING item, and one only in the target the path of exactly
\* one EXTRA item, whatever else the two trees contain.
C8_EmptyDirectoryReported ==
    Diffed =>
      /\ \A d \in SrcAssets :
           EmptyDirOnlyIn(sourceTree, targetTree, d)
           => Cardinality(ItemsAt("MISSING", d.Path)) = 1
      /\ \A d \in TgtAssets :
           EmptyDirOnlyIn(targetTree, sourceTree, d)
           => Cardinality(ItemsAt("EXTRA", d.Path)) = 1

\* C8 (amended): the same, provided no asset of the other inventory has the
\* identity key of the directory.
C8_EmptyDirectoryReportedUnlessMatched ==
    Diffed =>
      /\ \A d \in SrcAssets :
           (/\ EmptyDirOnlyIn(sourceTree, targetTree, d)
            /\ \A t \in TgtAssets : KeyOf(t) # KeyOf(d))
           => Cardinality(ItemsAt("MISSING", d.Path)) = 1
      /\ \A d \in TgtAssets :
           (/\ EmptyDirOnlyIn(targetTree, sourceTree, d)
            /\ \A o \in SrcAssets : KeyOf(o) # KeyOf(d))
           => Cardinality(ItemsAt("EXTRA", d.Path)) = 1

\* An empty directory only in the target, reported EXTRA beside the item of
\* another file.
C8_Witness ==
    /\ Diffed
    /\ \E d \in TgtAssets :
         /\ EmptyDirOnlyIn(targetTree, sourceTree, d)
         /\ \A o \in SrcAssets : KeyOf(o) # KeyOf(d)
         /\ Cardinality(ItemsAt("EXTRA", d.Path)) = 1
         /\ Len(report.Items) >= 2

---------------------------------------------------------------------------
(* C9 *)

\* The JSON value the reporter wrote.
JSONOut == stdout[Len(stdout)].value

HasInvalidByte(str) == \E i \in DOMAIN str : str[i] = byteFF

\* Every string of the report is valid UTF-8.
ReportIsUTF8 ==
    /\ ~HasInvalidByte(report.SourceDir)
    /\ ~HasInvalidByte(report.TargetDir)
    /\ \A i \in DOMAIN report.Items :
         /\ ~HasInvalidByte(report.Items[i].Reason)
         /\ \A k \in DOMAIN report.Items[i].Path :
              ~HasInvalidByte(report.Items[i].Path[k])

\* C9 as stated: decoding what JSONReporter wrote gives back the report:
\* the same directories, items and summary.
C9_JSONRoundTrip ==
    (pc = "done" /\ stdout[Len(stdout)].kind = "json")
    => DecodeReport(JSONOut) = report

\* C9 (amended): the same for every report whose strings are valid UTF-8.
C9_JSONRoundTripUTF8 ==
    (pc = "done" /\ stdout[Len(stdout)].kind = "json" /\ ReportIsUTF8)
    => DecodeReport(JSONOut) = report

\* A report written with a MISSING item of size 0 (reason and both sizes
\* left out) and an item with a reason and a target size.
C9_Witness ==
    /\ pc = "done"
    /\ stdout[Len(stdout)].kind = "json"
    /\ ReportIsUTF8
    /\ \E i \in DOMAIN report.Items :
         /\ report.Items[i].Type = "MISSING"
         /\ report.Items[i].SrcSize = 0
         /\ DOMAIN JSONOut.items[i] = {"type", "path"}
    /\ \E i \in DOMAIN report.Items :
         /\ report.Items[i].Reason # <<>>
         /\ report.Items[i].TgtSize # 0

---------------------------------------------------------------------------
(* C10 *)

\* The steps of one invocation, in order.
StepOrder ==
    <<"format", "source", "target", "scanSource", "scanTarget", "diff", "report">>

SourceErrors ==
    {"source argument error: directory does not exist",
     "source argument error: path is not a directory"}

TargetErrors ==
    {"target argument error: directory does not exist",
     "target argument error: path is not a directory"}

\* The steps completed are an initial part of the order, and an argument
\* that is no directory keeps the run from reaching a scan.
OrderedAndValidated ==
    /\ IsPrefix(steps, StepOrder)
    /\ rootKind["src"] # "dir"
         => /\ pc \in {"setup", "validateSource", "failed"}
            /\ sourceTree = NoTree /\ targetTree = NoTree
    /\ rootKind["tgt"] # "dir"
         => /\ pc \in {"setup", "validateSource", "validateTarget", "failed"}
            /\ sourceTree = NoTree /\ targetTree = NoTree

\* C10 as stated: the steps happen in order, each after the previous one
\* succeeded; an argument that is no directory fails the invocation before
\* any scan, the error naming the source when the source is invalid and
\* the target when only the target is invalid.
C10_ValidationOrder ==
    /\ OrderedAndValidated
    /\ (pc = "failed" /\ rootKind["src"] # "dir") => err \in SourceErrors
    /\ (pc = "failed" /\ rootKind["src"] = "dir" /\ rootKind["tgt"] # "dir")
         => err \in TargetErrors

\* C10 (amended): the same, the error naming the argument when the format
\* is valid; an invalid format fails the invocation first, with the format
\* error.
C10_ValidationOrderAfterFormat ==
    /\ OrderedAndValidated
    /\ pc = "failed" =>
         IF format \notin validFormats THEN err = "invalid format"
         ELSE IF rootKind["src"] # "dir" THEN err \in SourceErrors
         ELSE IF rootKind["tgt"] # "dir" THEN err \in TargetErrors
         ELSE TRUE

\* A run with a valid format and source whose target is a file: it failed
\* after two steps, naming the target.
C10_Witness ==
    /\ pc = "failed"
    /\ format \in validFormats
    /\ rootKind = [src |-> "dir", tgt |-> "file"]
    /\ steps = <<"format", "source">>
    /\ err = "target argument error: path is not a directory"
    /\ sourceTree = NoTree

---------------------------------------------------------------------------
(* C11 *)

\* The invocation has ended.
Terminated == pc \in {"done", "failed"}

\* The errors of the format validation, of the path validation and of the
\* two scans.
EarlyErrors ==
    {"invalid format"} \cup SourceErrors \cup TargetErrors
    \cup {"failed to scan source", "failed to scan target"}

\* Engine.Diff was not called.
DiffNotInvoked ==
    /\ comparator = NoComparator
    /\ report = NoReport
    /\ \A i \in DOMAIN steps : steps[i] # "diff"

\* The output holds nothing a reporter wrote (it may hold the lines
\* printed by --verbose).
NoReportOutput == \A i \in DOMAIN stdout : stdout[i].kind = "verbose"

\* A run that failed in a validation or in a scan exited with a non-zero
\* code, without a diff and without output of a reporter.
EarlyFailureIsClean ==
    (pc = "failed" /\ err \in EarlyErrors)
        => /\ exitCode # 0
           /\ DiffNotInvoked
           /\ NoReportOutput

\* C11 as stated: the exit code is non-zero when the format validation, a
\* path validation or a scan fails, and then the engine was never invoked
\* and no reporter wrote anything; every other run ends with exit code 0.
C11_ExitCode ==
    /\ EarlyFailureIsClean
    /\ (Terminated /\ err \notin EarlyErrors) => exitCode = 0

\* C11 (amended): the same, every other run ending with exit code 0 when
\* the reporter returns no error, whatever items the report holds; a run
\* in which the JSON reporter returns the error of its write to the output
\* ends with a non-zero code, after the diff and with no report written by
\* that write.
C11_ExitCodeUnlessWriteFails ==
    /\ EarlyFailureIsClean
    /\ pc = "done" => exitCode = 0 /\ err = ""
    /\ (pc = "failed" /\ err \notin EarlyErrors)
         => /\ exitCode # 0
            /\ err = "write error"
            /\ format = "json"
            /\ steps = SubSeq(StepOrder, 1, 6)
            /\ NoReportOutput
    /\ ~Terminated => exitCode = -1

\* A run that ended with exit code 0 and a written report holding a
\* MODIFIED and an EXTRA item.
C11_Witness ==
    /\ pc = "done"
    /\ exitCode = 0
    /\ steps = StepOrder
    /\ \A t \in {"MODIFIED", "EXTRA"} : ItemsOf(t) # {}
    /\ ~NoReportOutput

---------------------------------------------------------------------------
(* C12 *)

\* The indices of the items of a type that carry the path and the sizes
\* given.
ItemsFor(type, path, srcSize, tgtSize) ==
    {i \in ItemsAt(type, path) :
        /\ report.Items[i].SrcSize = srcSize
        /\ report.Items[i].TgtSize = tgtSize}

---------------------------------------------------------------------------
(* C13 *)

\* The position of a path in an iteration order.
Pos(order, path) == CHOOSE k \in DOMAIN order : order[k] = path

IsExtra(i) == report.Items[i].Type = "EXTRA"

\* C13: in the report of Engine.Diff no EXTRA item precedes a MISSING or
\* MODIFIED item, the MISSING and MODIFIED items stand in the order in
\* which the source loop iterated the source inventory, and the EXTRA
\* items in the order in which the last loop iterated the target inventory.
C13_ItemOrder ==
    Diffed =>
      \A i, j \in DOMAIN report.Items :
        i < j =>
          /\ IsExtra(i) => IsExtra(j)
          /\ (~IsExtra(i) /\ ~IsExtra(j))
               => Pos(iter.srcOrder, report.Items[i].Path)
                    < Pos(iter.srcOrder, report.Items[j].Path)
          /\ (IsExtra(i) /\ IsExtra(j))
               => Pos(iter.tgtOrder, report.Items[i].Path)
                    < Pos(iter.tgtOrder, report.Items[j].Path)

\* A report of three items, a source-driven one before two EXTRA items,
\* the target loop having visited first a path other than the first one
\* the index loop visited.
C13_Witness ==
    /\ Diffed
    /\ Len(report.Items) = 3
    /\ ~IsExtra(1) /\ IsExtra(2) /\ IsExtra(3)
    /\ iter.tgtOrder[1] # iter.idxOrder[1]
    /\ report.Items[2].Path = iter.tgtOrder[1]

---------------------------------------------------------------------------
(* C14 *)

\* The target assets with the identity key of an asset.
SameKey(asset) == {t \in TgtAssets : KeyOf(t) = KeyOf(asset)}

\* Of a non-empty set of target assets, the one the loop that builds the
\* index visited last.
LastIndexed(assets) ==
    CHOOSE t \in assets :
        \A u \in assets : Pos(iter.idxOrder, u.Path) <= Pos(iter.idxOrder, t.Path)

\* What the report holds for source asset s when the comparator was given
\* s and target asset t: the MODIFIED item with the comparator's reason and
\* the size of t when it answered modified, no item otherwise.
ComparedWith(s, t) ==
    LET res == CompareWith(comparator, s, t)
        at  == {i \in DOMAIN report.Items : report.Items[i].Path = s.Path
                                            /\ ~IsExtra(i)}
    IN  IF res.modified
        THEN \E i \in at :
               /\ at = {i}
               /\ report.Items[i] =
                    [Type |-> "MODIFIED", Path |-> s.Path,
                     Reason |-> res.reason,
                     SrcSize |-> s.Size, TgtSize |-> t.Size]
        ELSE at = {}

\* C14: when several target assets share an identity key, every source
\* asset with that key is compared with the one of them that the loop
\* over the target inventory that builds the index visited last, and a
\* resulting MODIFIED item records that asset's size as the target size.
C14_LastWriteWins ==
    Diffed =>
      \A s \in SrcAssets :
        Cardinality(SameKey(s)) >= 2 => ComparedWith(s, LastIndexed(SameKey(s)))

\* A diff in which two target assets of different sizes share the key of a
\* source asset, the MODIFIED item carries the size of the one indexed
\* last, and the last loop visited the two in the other order.
C14_Witness ==
    /\ Diffed
    /\ \E s \in SrcAssets :
         /\ Cardinality(SameKey(s)) = 2
         /\ \E t, u \in SameKey(s) :
              /\ t.Size # u.Size
              /\ t = LastIndexed(SameKey(s))
              /\ Pos(iter.tgtOrder, t.Path) < Pos(iter.tgtOrder, u.Path)
              /\ \E i \in ItemsAt("MODIFIED", s.Path) :
                   report.Items[i].TgtSize = t.Size

---------------------------------------------------------------------------
(* C15 *)

\* Target asset t was given to the comparator: it is the asset the index
\* holds under its key, and a source asset has that key.
PassedToComparator(t) ==
    /\ targetIndex(targetTree, iter.idxOrder)[KeyOf(t)] = t
    /\ \E s \in SrcAssets : KeyOf(s) = KeyOf(t)

\* C15: after Engine.Diff every target asset is the path of an EXTRA item
\* or was given to the comparator together with a source asset, also when
\* several target assets share an identity key.
C15_NoTargetAssetLost ==
    Diffed =>
      \A t \in TgtAssets :
        ItemsAt("EXTRA", t.Path) # {} \/ PassedToComparator(t)

---------------------------------------------------------------------------
(* C16 *)

\* No two target assets share an identity key.
NoTargetCollision ==
    \A t, u \in TgtAssets : KeyOf(t) = KeyOf(u) => t = u

\* The reports Engine.Diff returns for the inventories and the comparator
\* of this run, over all orders in which its three loops may iterate.
ReportsOfAllOrders ==
    {Diff(comparator, sourceTree, targetTree, idxOrder, srcOrder, tgtOrder) :
        idxOrder \in Orders(DOMAIN targetTree.Assets),
        srcOrder \in Orders(DOMAIN sourceTree.Assets),
        tgtOrder \in Orders(DOMAIN targetTree.Assets)}

ItemSet(r) == {r.Items[i] : i \in DOMAIN r.Items}

\* The indices of the source-driven items of a report.
SourcePart(r) == {i \in DOMAIN r.Items : r.Items[i].Type # "EXTRA"}

\* C16: when no two target assets share an identity key, the report of a
\* run of Engine.Diff and the report of a run on the same inventories and
\* comparator with any other iteration orders hold the same set of items,
\* as many items, the same summary and as many source-driven items before
\* the EXTRA items.
C16_OrderIndependent ==
    (Diffed /\ NoTargetCollision) =>
      \A r \in ReportsOfAllOrders :
        /\ ItemSet(r) = ItemSet(report)
        /\ Len(r.Items) = Len(report.Items)
        /\ r.Summary = report.Summary
        /\ SourcePart(r) = SourcePart(report)
        /\ r.SourceDir = report.SourceDir /\ r.TargetDir = report.TargetDir

\* A diff without colliding target assets, with a MODIFIED item among
\* two items or more, for which other iteration orders give the items in
\* another sequence.
C16_Witness ==
    /\ Diffed
    /\ NoTargetCollision
    /\ ItemsOf("MODIFIED") # {}
    /\ Len(report.Items) >= 2
    /\ \E r \in ReportsOfAllOrders : r.Items # report.Items

---------------------------------------------------------------------------
(* C17 *)

\* The reports Engine.Diff returns when called with the two inventories of
\* this run exchanged, over all iteration orders.
ReportsOfSwappedArguments ==
    {Diff(comparator, targetTree, sourceTree, idxOrder, srcOrder, tgtOrder) :
        idxOrder \in Orders(DOMAIN sourceTree.Assets),
        srcOrder \in Orders(DOMAIN targetTree.Assets),
        tgtOrder \in Orders(DOMAIN sourceTree.Assets)}

\* The (path, size) pairs of the MISSING and of the EXTRA items of a report.
MissingPairs(r) ==
    {<<r.Items[i].Path, r.Items[i].SrcSize>> :
        i \in {j \in DOMAIN r.Items : r.Items[j].Type = "MISSING"}}

ExtraPairs(r) ==
    {<<r.Items[i].Path, r.Items[i].TgtSize>> :
        i \in {j \in DOMAIN r.Items : r.Items[j].Type = "EXTRA"}}

\* C17: the (path, size) pairs of the MISSING items of Diff(S, T) are the
\* (path, size) pairs of the EXTRA items of Diff(T, S), and total_missing
\* of Diff(S, T) is the number of EXTRA items of Diff(T, S), for every
\* comparator and all iteration orders of the two calls.
C17_SwapSymmetry ==
    Diffed =>
      \A r \in ReportsOfSwappedArguments :
        /\ MissingPairs(report) = ExtraPairs(r)
        /\ report.Summary.TotalMissing
             = Cardinality({j \in DOMAIN r.Items : r.Items[j].Type = "EXTRA"})

\* A diff with a MISSING item of size 1 and a source asset that is not
\* MISSING, whose swapped call has EXTRA items and no MISSING item.
C17_Witness ==
    /\ Diffed
    /\ \E p \in MissingPairs(report) : p[2] = 1
    /\ \E s \in SrcAssets : ItemsAt("MISSING", s.Path) = {}
    /\ \E r \in ReportsOfSwappedArguments :
         ExtraPairs(r) # {} /\ MissingPairs(r) = {}

===========================================================================
